---- MODULE Spec2Model ----
(***************************************************************************)
(* The virtual block device of source/diskio_working.c: one device (id 0)  *)
(* with a fixed geometry, backed by a flat file or by a memory buffer.     *)
(* Every public function of the file is one action; the C library calls    *)
(* it makes (fopen, fwrite, fread, fseek, calloc) may fail, and each       *)
(* action draws their outcome from the environment.                        *)
(***************************************************************************)
EXTENDS Integers, Sequences, FiniteSets, TLC

\* -------------------------------------------------------------- bounds
\* Number of sectors of the disk (8192 in the source, scaled down).
TOTAL_SECTORS == 2
\* Largest value of a sector's contents; 0 is the zero-filled sector.
MaxByte == 1
\* Number of streams the process may hold open at once (the descriptor limit).
MaxOpen == 2
\* Width in bits of LBA_t and UINT (32 in the source, scaled down).
UINT_BITS == 12

\* ----------------------------------------------------------- constants
SECTOR_SIZE == 512
STA_NOINIT == 1

UINT_MOD == 2 ^ UINT_BITS
UINT_MAX == UINT_MOD - 1

Byte == 0 .. MaxByte
SectorIdx == 0 .. (TOTAL_SECTORS - 1)
Handles == 1 .. MaxOpen
ZeroDisk == [s \in SectorIdx |-> 0]
NotWritten == [s \in SectorIdx |-> -1]

Min(a, b) == IF a < b THEN a ELSE b
Max(a, b) == IF a > b THEN a ELSE b

\* The arguments the callers are drawn from: the sectors and counts at the
\* limits of the disk, and the largest value of the type.
PdrvArgs == {0, 1}
SectorArgs == {0, TOTAL_SECTORS - 1, TOTAL_SECTORS}
CountArgs == {0, 1, TOTAL_SECTORS, UINT_MAX}
\* The requests (pdrv, sector, count) of read and write: every one for device 0,
\* and one that is valid on device 0 for the device that does not exist.
Requests ==
    {<<0, s, c>> : s \in SectorArgs, c \in CountArgs} \cup {<<1, 0, 1>>}
CmdArgs == {"CTRL_SYNC", "GET_SECTOR_COUNT", "GET_SECTOR_SIZE", "GET_BLOCK_SIZE", "CTRL_TRIM"}
Faults == {"none", "seek", "io"}

VARIABLES
    use_file_backend,   \* 1: file backend, 0: memory backend (fixed at build time)
    disk_initialized,   \* the static flag
    disk_file,          \* the static FILE*: 0 is NULL, else an open stream
    virtual_disk,       \* the static BYTE*: 0 is NULL, else an allocated buffer
    openFiles,          \* the streams the process holds open
    heap,               \* the buffers the process holds allocated
    mem,                \* contents of the buffer, by sector
    fileExists,         \* whether fatfs_disk.img exists
    fileLen,            \* its length in sectors
    fileData,           \* its contents, by sector (sectors of the disk only)
    crashed,            \* the process died in an out-of-bounds copy
    last,               \* the last call: its arguments and what it returned
    written,            \* per sector, the data of the last complete disk_write of
                        \* this session (-1: none, or a write that stopped part-way)
    lastInit,           \* outcome of the last initialize since the last teardown
    everInit,           \* some initialize succeeded since the last teardown
    everFailed,         \* some initialize failed since the last teardown
    g_fs,               \* fatfs_python.c: the static FATFS*: 0 is NULL, else an object
    fsHeap,             \* the FATFS objects the binding holds allocated
    lastMount,          \* the last fatfs_mount call: arguments, steps taken, result
    pc,                 \* concurrent callers: where each is in its disk_read/disk_write
    req,                \* the request each caller is carrying out
    filePos,            \* the position of the stream disk_file, in sectors
    completed           \* the last call a caller completed, and where its transfer went

backend == <<disk_initialized, disk_file, virtual_disk, openFiles, heap, mem,
             fileExists, fileLen, fileData>>
history == <<written, lastInit, everInit, everFailed>>
binding == <<g_fs, fsHeap, lastMount>>
conc == <<pc, req, filePos, completed>>
vars == <<use_file_backend, disk_initialized, disk_file, virtual_disk, openFiles,
          heap, mem, fileExists, fileLen, fileData, crashed, last, written,
          lastInit, everInit, everFailed, g_fs, fsHeap, lastMount, pc, req, filePos,
          completed>>

\* The two concurrent callers, and a caller's request: one sector at `sector`.
Callers == {"A", "B"}
Request(op, sector, b) == [op |-> op, sector |-> sector, b |-> b]
Done(op, sector, at, res) == [op |-> op, sector |-> sector, at |-> at, res |-> res]

\* A fatfs_mount call: `steps` are the FatFs calls it made, each with its result.
Mount(args, steps, ret) == [args |-> args, steps |-> steps, ret |-> ret]

Call(op, pdrv, sector, count, cmd, res, out, fault) ==
    [op |-> op, pdrv |-> pdrv, sector |-> sector, count |-> count, cmd |-> cmd,
     res |-> res, out |-> out, fault |-> fault]

Init ==
    /\ use_file_backend \in {0, 1}
    /\ disk_initialized = 0
    /\ disk_file = 0
    /\ virtual_disk = 0
    /\ openFiles = {}
    /\ heap = {}
    /\ mem = ZeroDisk
    /\ fileExists = FALSE
    /\ fileLen = 0
    /\ fileData = ZeroDisk
    /\ crashed = FALSE
    /\ last = Call("start", 0, 0, 0, "", "RES_OK", <<>>, FALSE)
    /\ written = NotWritten
    /\ lastInit = "none"
    /\ everInit = FALSE
    /\ everFailed = FALSE
    /\ g_fs = 0
    /\ fsHeap = {}
    /\ lastMount = Mount(<<>>, <<>>, "none")
    /\ pc = [c \in Callers |-> "idle"]
    /\ req = [c \in Callers |-> Request("none", 0, 0)]
    /\ filePos = 0
    /\ completed = Done("none", 0, 0, "RES_OK")

\* ------------------------------------------------------ init_virtual_disk
\* A stream can be obtained while the process is below its descriptor limit.
StreamFree == Cardinality(openFiles) < MaxOpen
NewStream == CHOOSE h \in Handles : h \notin openFiles
NewBuffer == CHOOSE b \in Handles : b \notin heap

\* The file branch opening with "w+b" first: an existing file is truncated and
\* filled with zeros again.
init_file_truncating(ret) ==
    \E env \in BOOLEAN :
        /\ env => StreamFree
        /\ IF ~env
           THEN /\ disk_file' = 0
                /\ UNCHANGED <<openFiles, disk_initialized, fileExists, fileLen, fileData>>
                /\ ret = 0
           ELSE \E k \in 0 .. TOTAL_SECTORS :
                    /\ fileExists' = TRUE
                    /\ fileLen' = k
                    /\ fileData' = ZeroDisk
                    /\ IF k = TOTAL_SECTORS
                       THEN /\ disk_file' = NewStream
                            /\ openFiles' = openFiles \cup {NewStream}
                            /\ disk_initialized' = 1
                            /\ ret = 1
                       ELSE /\ disk_file' = 0
                            /\ UNCHANGED <<openFiles, disk_initialized>>
                            /\ ret = 0

\* The file branch with a zero-fill loop that stops one sector early.
init_file_short_fill(ret) ==
    \E env \in BOOLEAN :
        /\ env => StreamFree
        /\ IF env /\ fileExists
           THEN /\ disk_file' = NewStream
                /\ openFiles' = openFiles \cup {NewStream}
                /\ disk_initialized' = 1
                /\ UNCHANGED <<fileExists, fileLen, fileData>>
                /\ ret = 1
           ELSE IF ~env
           THEN /\ disk_file' = 0
                /\ UNCHANGED <<openFiles, disk_initialized, fileExists, fileLen, fileData>>
                /\ ret = 0
           ELSE \E k \in 0 .. (TOTAL_SECTORS - 1) :
                    /\ fileExists' = TRUE
                    /\ fileLen' = k
                    /\ fileData' = ZeroDisk
                    /\ IF k = TOTAL_SECTORS - 1
                       THEN /\ disk_file' = NewStream
                            /\ openFiles' = openFiles \cup {NewStream}
                            /\ disk_initialized' = 1
                            /\ ret = 1
                       ELSE /\ disk_file' = 0
                            /\ UNCHANGED <<openFiles, disk_initialized>>
                            /\ ret = 0

\* The file branch. fopen fails when the process cannot obtain a stream (both
\* modes) or, for "r+b", when the file is absent. The result of a failing fopen
\* is assigned to disk_file all the same, and disk_initialized is only ever set.
init_file(ret) ==
    \E env \in BOOLEAN :
        /\ env => StreamFree
        /\ IF env /\ fileExists
           THEN \* fopen "r+b" succeeds: a new stream on the existing file
                /\ disk_file' = NewStream
                /\ openFiles' = openFiles \cup {NewStream}
                /\ disk_initialized' = 1
                /\ UNCHANGED <<fileExists, fileLen, fileData>>
                /\ ret = 1
           ELSE IF ~env
           THEN \* fopen "r+b" and fopen "w+b" both fail
                /\ disk_file' = 0
                /\ UNCHANGED <<openFiles, disk_initialized, fileExists, fileLen, fileData>>
                /\ ret = 0
           ELSE \* fopen "w+b" creates the file; the zero-fill writes k sectors
                \E k \in 0 .. TOTAL_SECTORS :
                    /\ fileExists' = TRUE
                    /\ fileLen' = k
                    /\ fileData' = ZeroDisk
                    /\ IF k = TOTAL_SECTORS
                       THEN /\ disk_file' = NewStream
                            /\ openFiles' = openFiles \cup {NewStream}
                            /\ disk_initialized' = 1
                            /\ ret = 1
                       ELSE \* fwrite was short: fclose, disk_file = NULL
                            /\ disk_file' = 0
                            /\ UNCHANGED <<openFiles, disk_initialized>>
                            /\ ret = 0

\* The memory branch with the flag set before the allocation is checked.
init_memory_flag_first(ret) ==
    IF virtual_disk # 0
    THEN /\ disk_initialized' = 1
         /\ UNCHANGED <<virtual_disk, heap, mem>>
         /\ ret = 1
    ELSE \/ /\ virtual_disk' = NewBuffer
            /\ heap' = heap \cup {NewBuffer}
            /\ mem' = ZeroDisk
            /\ disk_initialized' = 1
            /\ ret = 1
         \/ /\ UNCHANGED <<virtual_disk, heap, mem>>
            /\ disk_initialized' = 1
            /\ ret = 0

\* The memory branch with malloc for calloc: the new buffer holds anything.
init_memory_malloc(ret) ==
    IF virtual_disk # 0
    THEN /\ disk_initialized' = 1
         /\ UNCHANGED <<virtual_disk, heap, mem>>
         /\ ret = 1
    ELSE \/ /\ virtual_disk' = NewBuffer
            /\ heap' = heap \cup {NewBuffer}
            /\ mem' \in [SectorIdx -> Byte]
            /\ disk_initialized' = 1
            /\ ret = 1
         \/ /\ UNCHANGED <<virtual_disk, heap, mem, disk_initialized>>
            /\ ret = 0

\* The memory branch: calloc only when no buffer is held.
init_memory(ret) ==
    IF virtual_disk # 0
    THEN /\ disk_initialized' = 1
         /\ UNCHANGED <<virtual_disk, heap, mem>>
         /\ ret = 1
    ELSE \/ /\ virtual_disk' = NewBuffer
            /\ heap' = heap \cup {NewBuffer}
            /\ mem' = ZeroDisk
            /\ disk_initialized' = 1
            /\ ret = 1
         \/ /\ UNCHANGED <<virtual_disk, heap, mem, disk_initialized>>
            /\ ret = 0

init_virtual_disk(ret) ==
    IF use_file_backend = 1
    THEN init_file(ret) /\ UNCHANGED <<virtual_disk, heap, mem>>
    ELSE init_memory(ret) /\ UNCHANGED <<disk_file, openFiles, fileExists, fileLen, fileData>>

\* --------------------------------------------------- cleanup_virtual_disk
\* The teardown without its reset of disk_initialized.
cleanup_virtual_disk_keeps_flag ==
    /\ disk_file' = 0
    /\ openFiles' = IF disk_file # 0 THEN openFiles \ {disk_file} ELSE openFiles
    /\ virtual_disk' = 0
    /\ heap' = IF virtual_disk # 0 THEN heap \ {virtual_disk} ELSE heap
    /\ mem' = IF virtual_disk # 0 THEN ZeroDisk ELSE mem
    /\ UNCHANGED <<disk_initialized, fileExists, fileLen, fileData>>

cleanup_virtual_disk ==
    /\ disk_file' = 0
    /\ openFiles' = IF disk_file # 0 THEN openFiles \ {disk_file} ELSE openFiles
    /\ virtual_disk' = 0
    /\ heap' = IF virtual_disk # 0 THEN heap \ {virtual_disk} ELSE heap
    /\ mem' = IF virtual_disk # 0 THEN ZeroDisk ELSE mem
    /\ disk_initialized' = 0
    /\ UNCHANGED <<fileExists, fileLen, fileData>>

\* ------------------------------------------------------------ disk_status
disk_status(pdrv) ==
    IF pdrv = 0
    THEN (IF disk_initialized # 0 THEN 0 ELSE STA_NOINIT)
    ELSE STA_NOINIT

DiskStatus(pdrv) ==
    /\ ~crashed
    /\ last' = Call("disk_status", pdrv, 0, 0, "", disk_status(pdrv), <<>>, FALSE)
    /\ UNCHANGED <<use_file_backend, backend, crashed, history, binding, conc>>

\* -------------------------------------------------------- disk_initialize
DiskInitialize(pdrv) ==
    /\ ~crashed
    /\ UNCHANGED <<use_file_backend, crashed, binding, conc>>
    /\ IF pdrv = 0
       THEN \E ret \in {0, 1} :
                /\ init_virtual_disk(ret)
                /\ last' = Call("disk_initialize", pdrv, 0, 0, "",
                                IF ret = 1 THEN 0 ELSE STA_NOINIT,
                                IF fileExists' /\ ~fileExists THEN <<"created">> ELSE <<>>,
                                FALSE)
                /\ written' = NotWritten
                /\ lastInit' = IF ret = 1 THEN "ok" ELSE "failed"
                /\ everInit' = (everInit \/ ret = 1)
                /\ everFailed' = (everFailed \/ ret = 0)
       ELSE /\ last' = Call("disk_initialize", pdrv, 0, 0, "", STA_NOINIT, <<>>, FALSE)
            /\ UNCHANGED <<backend, history>>

\* ------------------------------------------------- the checks of read/write
\* The first check without its test of disk_initialized.
NotReadyNoInitTest(pdrv) == pdrv # 0

\* The first check without its test of pdrv.
NotReadyNoPdrvTest(pdrv) == disk_initialized = 0

\* Line 128 / 171: the device is not 0, or it is not initialized.
NotReady(pdrv) == pdrv # 0 \/ disk_initialized = 0

\* Line 132 / 175: the range check, in the unsigned arithmetic of LBA_t + UINT.
RangeRejected(sector, count) ==
    sector >= TOTAL_SECTORS \/ ((sector + count) % UINT_MOD) > TOTAL_SECTORS

\* count * SECTOR_SIZE, an unsigned int product, in whole sectors.
TransferSectors(count) == ((count * SECTOR_SIZE) % UINT_MOD) \div SECTOR_SIZE

\* The transfer's return value taken as it comes.
TransferResultUnchecked(done, asked) == "RES_OK"

\* Lines 144 / 187: fread or fwrite transferred `done` of the `asked` sectors.
TransferResult(done, asked) == IF done # asked THEN "RES_ERROR" ELSE "RES_OK"

\* The caller's buffer: sector i of it holds Pattern(b, i).
Pattern(b, i) == (b + i) % (MaxByte + 1)

\* The copy landing one sector too far (a wrong seek offset).
StoreSectorsShifted(disk, sector, k, b) ==
    [s \in SectorIdx |->
        IF s >= sector + 1 /\ s < sector + 1 + k THEN Pattern(b, s - sector - 1) ELSE disk[s]]

\* The copy running one sector past the end of the data.
StoreSectorsSpill(disk, sector, k, b) ==
    [s \in SectorIdx |->
        IF s >= sector /\ s < sector + k + 1 THEN Pattern(b, s - sector) ELSE disk[s]]

\* The copy of k sectors of the caller's buffer to the disk at `sector`.
StoreSectors(disk, sector, k, b) ==
    [s \in SectorIdx |->
        IF s >= sector /\ s < sector + k THEN Pattern(b, s - sector) ELSE disk[s]]

\* A request for whole sectors of the disk.
ValidRange(sector, count) == count > 0 /\ sector + count <= TOTAL_SECTORS

\* The record of what was written: a complete write of a valid range records the
\* caller's data for its sectors; any other write forgets the sectors it touches.
Remember(sector, count, n, b, complete) ==
    [s \in SectorIdx |->
        IF s >= sector /\ s < sector + n
        THEN (IF complete /\ ValidRange(sector, count) THEN Pattern(b, s - sector) ELSE -1)
        ELSE written[s]]

\* The copy of k sectors of the disk at `sector` to the caller's buffer.
LoadSectors(disk, sector, k) ==
    [i \in 1 .. Min(k, TOTAL_SECTORS - sector) |-> disk[sector + i - 1]]

\* -------------------------------------------------------------- disk_read
DiskRead(pdrv, sector, count) ==
    LET n == TransferSectors(count)
        ret(res, out, fault) ==
            last' = Call("disk_read", pdrv, sector, count, "", res, out, fault)
    IN
    /\ ~crashed
    /\ UNCHANGED <<use_file_backend, backend, history, binding, conc>>
    /\ IF NotReady(pdrv) \/ RangeRejected(sector, count)
       THEN ret("RES_PARERR", <<>>, FALSE) /\ UNCHANGED crashed
       ELSE IF use_file_backend = 1 /\ disk_file # 0
       THEN /\ UNCHANGED crashed
            /\ \E fault \in Faults :
                 IF fault = "seek"
                 THEN ret("RES_ERROR", <<>>, TRUE)
                 ELSE IF n > 0 /\ (fault = "io" \/ sector + n > fileLen)
                 THEN \* fread returned fewer bytes than asked for (n - 1 stands for
                      \* every number below n: the code tests for equality only)
                      ret(TransferResult(n - 1, n), <<>>, fault = "io")
                 ELSE ret(TransferResult(n, n), LoadSectors(fileData, sector, n), FALSE)
       ELSE IF virtual_disk # 0
       THEN IF sector + n > TOTAL_SECTORS
            THEN \* memcpy runs past the end of the buffer
                 \/ crashed' = TRUE /\ ret("crash", <<>>, FALSE)
                 \/ UNCHANGED crashed /\ ret("RES_OK", LoadSectors(mem, sector, n), FALSE)
            ELSE UNCHANGED crashed /\ ret("RES_OK", LoadSectors(mem, sector, n), FALSE)
       ELSE ret("RES_ERROR", <<>>, FALSE) /\ UNCHANGED crashed

\* ------------------------------------------------------------- disk_write
DiskWrite(pdrv, buffers, sector, count) ==
    LET n == TransferSectors(count)
        inDisk == Min(n, TOTAL_SECTORS - sector)
        \* the contents of buff the call is tried with: every one of `buffers`
        \* where bytes of it are copied, one of them where none is
        buffs(k) == IF k > 0 THEN buffers ELSE {CHOOSE b \in buffers : TRUE}
        ret(res, fault) ==
            last' = Call("disk_write", pdrv, sector, count, "", res, <<>>, fault)
    IN
    /\ ~crashed
    /\ UNCHANGED <<use_file_backend, disk_initialized, disk_file, virtual_disk,
                   openFiles, heap, fileExists, lastInit, everInit, everFailed, binding, conc>>
    /\ IF NotReady(pdrv) \/ RangeRejected(sector, count)
       THEN /\ ret("RES_PARERR", FALSE)
            /\ UNCHANGED <<mem, fileLen, fileData, crashed, written>>
       ELSE IF use_file_backend = 1 /\ disk_file # 0
       THEN /\ UNCHANGED <<mem, crashed>>
            /\ \E fault \in Faults :
                 IF fault = "seek"
                 THEN /\ ret("RES_ERROR", TRUE)
                      /\ UNCHANGED <<fileLen, fileData, written>>
                 ELSE IF fault = "io" /\ n > 0
                 THEN \* fwrite wrote only k of the n sectors (none of a part beyond
                      \* the disk: such a write stops at the end of the disk at the latest)
                      \E k \in 0 .. Min(n - 1, TOTAL_SECTORS - sector) :
                        \E b \in buffs(k) :
                          /\ fileData' = StoreSectors(fileData, sector, k, b)
                          /\ fileLen' = IF k > 0 THEN Max(fileLen, sector + k) ELSE fileLen
                          /\ written' = Remember(sector, count, n, b, FALSE)
                          /\ ret(TransferResult(k, n), TRUE)
                 ELSE \E b \in buffs(n) :
                      /\ fileData' = StoreSectors(fileData, sector, n, b)
                      /\ fileLen' = IF n > 0 THEN Max(fileLen, sector + n) ELSE fileLen
                      /\ written' = Remember(sector, count, n, b, TRUE)
                      /\ ret(TransferResult(n, n), FALSE)
       ELSE IF virtual_disk # 0
       THEN /\ UNCHANGED <<fileLen, fileData>>
            /\ \E b \in buffs(n) :
               IF sector + n > TOTAL_SECTORS
               THEN \* memcpy runs past the end of the buffer
                    \/ /\ crashed' = TRUE
                       /\ mem' = StoreSectors(mem, sector, inDisk, b)
                       /\ written' = Remember(sector, count, n, b, FALSE)
                       /\ ret("crash", FALSE)
                    \/ /\ UNCHANGED crashed
                       /\ mem' = StoreSectors(mem, sector, inDisk, b)
                       /\ written' = Remember(sector, count, n, b, FALSE)
                       /\ ret("RES_OK", FALSE)
               ELSE /\ UNCHANGED crashed
                    /\ mem' = StoreSectors(mem, sector, n, b)
                    /\ written' = Remember(sector, count, n, b, TRUE)
                    /\ ret("RES_OK", FALSE)
       ELSE /\ ret("RES_ERROR", FALSE)
            /\ UNCHANGED <<mem, fileLen, fileData, crashed, written>>

\* ------------------------------------------------------------- disk_ioctl
\* The result with the geometry queries refused until the device is initialized.
ioctl_result_needs_init(pdrv, cmd) ==
    IF pdrv # 0 \/ disk_initialized = 0 THEN "RES_PARERR"
    ELSE IF cmd \in {"CTRL_SYNC", "GET_SECTOR_COUNT", "GET_SECTOR_SIZE", "GET_BLOCK_SIZE"}
    THEN "RES_OK"
    ELSE "RES_PARERR"

\* The result with the default case of the switch returning RES_OK.
ioctl_result_default_ok(pdrv, cmd) ==
    IF pdrv # 0 THEN "RES_PARERR" ELSE "RES_OK"

ioctl_result(pdrv, cmd) ==
    IF pdrv # 0 THEN "RES_PARERR"
    ELSE IF cmd \in {"CTRL_SYNC", "GET_SECTOR_COUNT", "GET_SECTOR_SIZE", "GET_BLOCK_SIZE"}
    THEN "RES_OK"
    ELSE "RES_PARERR"

\* The value stored through buff, as a one-element sequence; <<>> when none is.
ioctl_value(pdrv, cmd) ==
    IF pdrv # 0 THEN <<>>
    ELSE IF cmd = "GET_SECTOR_COUNT" THEN <<TOTAL_SECTORS>>
    ELSE IF cmd = "GET_SECTOR_SIZE" THEN <<SECTOR_SIZE>>
    ELSE IF cmd = "GET_BLOCK_SIZE" THEN <<1>>
    ELSE <<>>

DiskIoctl(pdrv, cmd) ==
    /\ ~crashed
    /\ last' = Call("disk_ioctl", pdrv, 0, 0, cmd, ioctl_result(pdrv, cmd),
                    ioctl_value(pdrv, cmd), FALSE)
    /\ UNCHANGED <<use_file_backend, backend, crashed, history, binding, conc>>

\* ---------------------------------------------------- format_virtual_disk
FormatVirtualDisk ==
    /\ ~crashed
    /\ UNCHANGED <<use_file_backend, crashed, binding, conc>>
    /\ IF disk_initialized = 0
       THEN \E ret \in {0, 1} :
                /\ init_virtual_disk(ret)
                /\ last' = Call("format_virtual_disk", 0, 0, 0, "", ret, <<>>, FALSE)
                /\ written' = NotWritten
                /\ lastInit' = IF ret = 1 THEN "ok" ELSE "failed"
                /\ everInit' = (everInit \/ ret = 1)
                /\ everFailed' = (everFailed \/ ret = 0)
       ELSE /\ last' = Call("format_virtual_disk", 0, 0, 0, "", 1, <<>>, FALSE)
            /\ UNCHANGED <<backend, history>>

\* -------------------------------------------------- cleanup_disk_resources
CleanupDiskResources ==
    /\ ~crashed
    /\ cleanup_virtual_disk
    /\ last' = Call("cleanup_disk_resources", 0, 0, 0, "", 0, <<>>, FALSE)
    /\ written' = NotWritten
    /\ lastInit' = "none"
    /\ everInit' = FALSE
    /\ everFailed' = FALSE
    /\ UNCHANGED <<use_file_backend, crashed, binding, conc>>

Next ==
    \/ \E pdrv \in PdrvArgs : DiskStatus(pdrv)
    \/ \E pdrv \in PdrvArgs : DiskInitialize(pdrv)
    \/ \E r \in Requests : DiskRead(r[1], r[2], r[3])
    \/ \E r \in Requests : DiskWrite(r[1], Byte, r[2], r[3])
    \/ \E pdrv \in PdrvArgs, cmd \in CmdArgs : DiskIoctl(pdrv, cmd)
    \/ FormatVirtualDisk
    \/ CleanupDiskResources

Spec == Init /\ [][Next]_vars

TypeOK ==
    /\ use_file_backend \in {0, 1}
    /\ disk_initialized \in {0, 1}
    /\ disk_file \in {0} \cup Handles
    /\ virtual_disk \in {0} \cup Handles
    /\ openFiles \subseteq Handles
    /\ heap \subseteq Handles
    /\ mem \in [SectorIdx -> Byte]
    /\ fileData \in [SectorIdx -> Byte]
    /\ fileLen \in Nat
    /\ crashed \in BOOLEAN
    /\ written \in [SectorIdx -> Byte \cup {-1}]
    /\ lastInit \in {"none", "ok", "failed"}
    /\ g_fs \in {0} \cup Handles
    /\ fsHeap \subseteq Handles

\* ===================================================== diskio_minimal.c
\* The stub backend: the same five functions, with no state of their own.
DEV_FLASH == 0
DEV_MMC == 1
DEV_USB == 2
MINIMAL_SECTOR_COUNT == 1024
MINIMAL_SECTOR_SIZE == 512

\* The drives of the stub, and one id it does not know.
MinimalPdrvArgs == {DEV_FLASH, DEV_MMC, DEV_USB, DEV_USB + 1}
MinimalSectorArgs == {0, TOTAL_SECTORS, UINT_MAX}
MinimalCountArgs == {0, 1, UINT_MAX}

\* disk_status and disk_initialize: 0 for the three drives, STA_NOINIT otherwise.
minimal_status(pdrv) ==
    IF pdrv \in {DEV_FLASH, DEV_MMC, DEV_USB} THEN 0 ELSE STA_NOINIT

\* disk_read and disk_write with a range check against the stub's geometry.
minimal_transfer_range_checked(pdrv, sector, count) ==
    IF pdrv \in {DEV_FLASH, DEV_MMC, DEV_USB} /\ sector + count <= MINIMAL_SECTOR_COUNT
    THEN "RES_OK"
    ELSE "RES_PARERR"

\* disk_read and disk_write: the arguments buff, sector and count are not used.
minimal_transfer(pdrv, sector, count) ==
    IF pdrv \in {DEV_FLASH, DEV_MMC, DEV_USB} THEN "RES_OK" ELSE "RES_PARERR"

minimal_ioctl_result(pdrv, cmd) ==
    IF pdrv \in {DEV_FLASH, DEV_MMC, DEV_USB}
    THEN (IF cmd \in {"CTRL_SYNC", "GET_SECTOR_COUNT", "GET_SECTOR_SIZE", "GET_BLOCK_SIZE"}
          THEN "RES_OK"
          ELSE "RES_PARERR")
    ELSE "RES_PARERR"

minimal_ioctl_value(pdrv, cmd) ==
    IF pdrv \notin {DEV_FLASH, DEV_MMC, DEV_USB} THEN <<>>
    ELSE IF cmd = "GET_SECTOR_COUNT" THEN <<MINIMAL_SECTOR_COUNT>>
    ELSE IF cmd = "GET_SECTOR_SIZE" THEN <<MINIMAL_SECTOR_SIZE>>
    ELSE IF cmd = "GET_BLOCK_SIZE" THEN <<1>>
    ELSE <<>>

MinimalDiskStatus(pdrv) ==
    /\ last' = Call("minimal_disk_status", pdrv, 0, 0, "", minimal_status(pdrv), <<>>, FALSE)
    /\ UNCHANGED <<use_file_backend, backend, crashed, history, binding, conc>>

MinimalDiskInitialize(pdrv) ==
    /\ last' = Call("minimal_disk_initialize", pdrv, 0, 0, "", minimal_status(pdrv),
                    <<>>, FALSE)
    /\ UNCHANGED <<use_file_backend, backend, crashed, history, binding, conc>>

MinimalDiskRead(pdrv, sector, count) ==
    /\ last' = Call("minimal_disk_read", pdrv, sector, count, "",
                    minimal_transfer(pdrv, sector, count), <<>>, FALSE)
    /\ UNCHANGED <<use_file_backend, backend, crashed, history, binding, conc>>

MinimalDiskWrite(pdrv, sector, count) ==
    /\ last' = Call("minimal_disk_write", pdrv, sector, count, "",
                    minimal_transfer(pdrv, sector, count), <<>>, FALSE)
    /\ UNCHANGED <<use_file_backend, backend, crashed, history, binding, conc>>

MinimalDiskIoctl(pdrv, cmd) ==
    /\ last' = Call("minimal_disk_ioctl", pdrv, 0, 0, cmd, minimal_ioctl_result(pdrv, cmd),
                    minimal_ioctl_value(pdrv, cmd), FALSE)
    /\ UNCHANGED <<use_file_backend, backend, crashed, history, binding, conc>>

\* The two backends side by side: calls to the stub between the calls to the
\* working backend, whose writes here are of zeros only (what is compared is
\* which calls are accepted, not the data).
NextBoth ==
    \/ \E pdrv \in PdrvArgs : DiskStatus(pdrv)
    \/ \E pdrv \in PdrvArgs : DiskInitialize(pdrv)
    \/ \E r \in Requests : DiskRead(r[1], r[2], r[3])
    \/ \E r \in Requests : DiskWrite(r[1], {0}, r[2], r[3])
    \/ CleanupDiskResources
    \/ \E pdrv \in MinimalPdrvArgs : MinimalDiskStatus(pdrv)
    \/ \E pdrv \in MinimalPdrvArgs : MinimalDiskInitialize(pdrv)
    \/ \E pdrv \in MinimalPdrvArgs, sector \in MinimalSectorArgs, count \in MinimalCountArgs :
           MinimalDiskRead(pdrv, sector, count)
    \/ \E pdrv \in MinimalPdrvArgs, sector \in MinimalSectorArgs, count \in MinimalCountArgs :
           MinimalDiskWrite(pdrv, sector, count)
    \/ \E pdrv \in MinimalPdrvArgs, cmd \in CmdArgs : MinimalDiskIoctl(pdrv, cmd)

SpecBoth == Init /\ [][NextBoth]_vars

\* ======================================================= fatfs_python.c
\* fatfs_mount. f_mount and f_mkfs are FatFs library calls: each returns any of
\* these results.
FResults == {"FR_OK", "FR_DISK_ERR", "FR_NOT_READY", "FR_NO_FILESYSTEM"}
PathArgs == {"", "0:", "1:"}
DriveArgs == {0, 1}
OptArgs == {0, 1}

\* The FatFs calls made, given what f_mount, f_mkfs and the second f_mount
\* would return: the format only after FR_NO_FILESYSTEM, the second mount
\* only after a successful format.
mount_steps(r1, r2, r3) ==
    IF r1 # "FR_NO_FILESYSTEM" THEN <<[name |-> "f_mount", res |-> r1]>>
    ELSE IF r2 # "FR_OK"
    THEN <<[name |-> "f_mount", res |-> r1], [name |-> "f_mkfs", res |-> r2]>>
    ELSE <<[name |-> "f_mount", res |-> r1], [name |-> "f_mkfs", res |-> r2],
           [name |-> "f_mount", res |-> r3]>>

\* res at line 51: the result of the last call made.
mount_result(r1, r2, r3) ==
    IF r1 # "FR_NO_FILESYSTEM" THEN r1 ELSE IF r2 # "FR_OK" THEN r2 ELSE r3

\* The object kept whatever the result.
keep_fs_always(res, p) == p

\* Lines 51-54: the object is freed and g_fs reset unless the result is FR_OK.
keep_fs(res, p) == IF res # "FR_OK" THEN 0 ELSE p

FatfsMount(path, drive, opt) ==
    \E parsed \in BOOLEAN, enough \in BOOLEAN, r1 \in FResults, r2 \in FResults,
       r3 \in FResults :
        LET freed == IF g_fs # 0 THEN fsHeap \ {g_fs} ELSE fsHeap
            p == CHOOSE h \in Handles : h \notin freed
            res == mount_result(r1, r2, r3)
        IN
        /\ UNCHANGED <<use_file_backend, backend, crashed, last, history, conc>>
        /\ IF ~parsed
           THEN \* PyArg_ParseTuple failed: TypeError, nothing touched
                /\ lastMount' = Mount(<<>>, <<>>, "TypeError")
                /\ UNCHANGED <<g_fs, fsHeap>>
           ELSE IF ~enough
           THEN \* PyMem_Malloc returned NULL, after the old object was freed
                /\ g_fs' = 0
                /\ fsHeap' = freed
                /\ lastMount' = Mount(<<path, drive, opt>>, <<>>, "MemoryError")
           ELSE /\ g_fs' = keep_fs(res, p)
                /\ fsHeap' = IF keep_fs(res, p) = 0 THEN freed ELSE freed \cup {p}
                /\ lastMount' = Mount(<<path, drive, opt>>, mount_steps(r1, r2, r3), res)

NextMount ==
    \E path \in PathArgs, drive \in DriveArgs, opt \in OptArgs : FatfsMount(path, drive, opt)

SpecMount == Init /\ [][NextMount]_vars

\* ======================================== disk_read / disk_write, two callers
\* Two threads call disk_read and disk_write on device 0 of the file backend.
\* Each stdio call locks the stream for its own duration, so fseek and
\* fread/fwrite are steps, and nothing in the code joins the two.
ConcSectorArgs == SectorIdx \cup {TOTAL_SECTORS}

\* The device is Ready on a full file of zeros: the state after the first
\* disk_initialize(0) of the file backend.
InitConcurrent ==
    /\ use_file_backend = 1
    /\ disk_initialized = 1
    /\ disk_file = 1
    /\ virtual_disk = 0
    /\ openFiles = {1}
    /\ heap = {}
    /\ mem = ZeroDisk
    /\ fileExists = TRUE
    /\ fileLen = TOTAL_SECTORS
    /\ fileData = ZeroDisk
    /\ crashed = FALSE
    /\ last = Call("disk_initialize", 0, 0, 0, "", 0, <<"created">>, FALSE)
    /\ written = NotWritten
    /\ lastInit = "ok"
    /\ everInit = TRUE
    /\ everFailed = FALSE
    /\ g_fs = 0
    /\ fsHeap = {}
    /\ lastMount = Mount(<<>>, <<>>, "none")
    /\ pc = [c \in Callers |-> "idle"]
    /\ req = [c \in Callers |-> Request("none", 0, 0)]
    /\ filePos = 0
    /\ completed = Done("none", 0, 0, "RES_OK")

\* Lines 128-140 / 171-183: the two checks, then fseek to the sector. Nothing
\* in the code makes a caller wait for another.
CallerSeek(c, op, sector, b) ==
    /\ pc[c] = "idle"
    /\ UNCHANGED <<use_file_backend, backend, crashed, last, history, binding>>
    /\ IF NotReady(0) \/ RangeRejected(sector, 1)
       THEN /\ completed' = Done(op, sector, filePos, "RES_PARERR")
            /\ UNCHANGED <<pc, req, filePos>>
       ELSE \E fault \in {"none", "seek"} :
                IF fault = "seek"
                THEN /\ completed' = Done(op, sector, filePos, "RES_ERROR")
                     /\ UNCHANGED <<pc, req, filePos>>
                ELSE /\ filePos' = sector
                     /\ pc' = [pc EXCEPT ![c] = "seeked"]
                     /\ req' = [req EXCEPT ![c] =
                                    Request(op, sector, IF op = "disk_write" THEN b ELSE 0)]
                     /\ UNCHANGED completed

\* Lines 141-147 / 184-192: fread or fwrite of one sector at the position the
\* stream has now, which then moves past the sector.
CallerTransfer(c) ==
    /\ pc[c] = "seeked"
    /\ pc' = [pc EXCEPT ![c] = "idle"]
    /\ req' = [req EXCEPT ![c] = Request("none", 0, 0)]
    /\ UNCHANGED <<use_file_backend, disk_initialized, disk_file, virtual_disk, openFiles,
                   heap, mem, fileExists, crashed, last, history, binding>>
    /\ \E fault \in {"none", "io"} :
         IF fault = "io" \/ (req[c].op = "disk_read" /\ filePos + 1 > fileLen)
         THEN \* nothing was transferred
              /\ completed' = Done(req[c].op, req[c].sector, filePos, TransferResult(0, 1))
              /\ UNCHANGED <<fileData, fileLen, filePos>>
         ELSE /\ completed' = Done(req[c].op, req[c].sector, filePos, TransferResult(1, 1))
              /\ filePos' = filePos + 1
              /\ IF req[c].op = "disk_write"
                 THEN /\ fileData' = StoreSectors(fileData, filePos, 1, req[c].b)
                      /\ fileLen' = Max(fileLen, filePos + 1)
                 ELSE UNCHANGED <<fileData, fileLen>>

NextConcurrent ==
    \/ \E c \in Callers, op \in {"disk_read", "disk_write"}, sector \in ConcSectorArgs,
          b \in Byte : CallerSeek(c, op, sector, b)
    \/ \E c \in Callers : CallerTransfer(c)

SpecConcurrent == InitConcurrent /\ [][NextConcurrent]_vars

\* ================================================================ claims
IsReadWrite(call) == call.op \in {"disk_read", "disk_write"}
Contents == <<mem, fileLen, fileData>>

\* C1: on an initialized device 0, a read of a valid range (count > 0,
\* start + count <= TOTAL_SECTORS) whose sectors were all written by disk_write
\* calls that returned RES_OK, with no later write to them in the session and no
\* failure of the read's seek or transfer, returns RES_OK and exactly the data
\* written, on the memory backend and on the file backend.
C1_WriteThenReadReturnsData ==
    (/\ last.op = "disk_read"
     /\ last.pdrv = 0
     /\ ValidRange(last.sector, last.count)
     /\ ~last.fault
     /\ \A s \in last.sector .. (last.sector + last.count - 1) : written[s] # -1)
    => (/\ last.res = "RES_OK"
        /\ Len(last.out) = last.count
        /\ \A i \in 1 .. last.count : last.out[i] = written[last.sector + i - 1])

\* A read of the whole disk on the file backend that returned data written before,
\* not all of it zero.
C1_Witness ==
    /\ use_file_backend = 1
    /\ last.op = "disk_read"
    /\ last.pdrv = 0
    /\ last.sector = 0
    /\ last.count = TOTAL_SECTORS
    /\ last.res = "RES_OK"
    /\ \A s \in SectorIdx : written[s] # -1 /\ last.out[s + 1] = written[s]
    /\ \E s \in SectorIdx : written[s] # 0

\* C2: every read or write request with start >= TOTAL_SECTORS or
\* start + count > TOTAL_SECTORS reports a parameter error and leaves every
\* sector of the backend as it was.
C2_OutOfRangeRejectedUnchanged ==
    [][(/\ IsReadWrite(last')
        /\ last'.pdrv = 0
        /\ (last'.sector >= TOTAL_SECTORS \/ last'.sector + last'.count > TOTAL_SECTORS))
       => (last'.res = "RES_PARERR" /\ UNCHANGED Contents)]_vars

\* C3: on an initialized device, a read or write request is accepted (passes the
\* parameter checks) if and only if count > 0, start < TOTAL_SECTORS and
\* start + count <= TOTAL_SECTORS; a request with count = 0 is rejected.
C3_AcceptedIffValid ==
    (IsReadWrite(last) /\ last.pdrv = 0 /\ disk_initialized = 1)
    => ((last.res # "RES_PARERR")
        <=> (/\ last.count > 0
             /\ last.sector < TOTAL_SECTORS
             /\ last.sector + last.count <= TOTAL_SECTORS))

\* C4: the range check never accepts a request whose sum start + count, taken in
\* the integers, exceeds TOTAL_SECTORS, also when the sum wraps around in the
\* unsigned arithmetic of LBA_t and UINT.
C4_NoWrapAccepted ==
    (IsReadWrite(last) /\ last.sector + last.count >= UINT_MOD)
    => last.res = "RES_PARERR"

\* C5: a read or write on device 0 before the first successful initialize, or
\* after a teardown, returns an error (the parameter error of the first check)
\* and changes neither the backend's bytes nor the flag, the stream or the buffer.
C5_NotInitializedRejected ==
    [][(IsReadWrite(last') /\ last'.pdrv = 0 /\ ~everInit)
       => (last'.res = "RES_PARERR" /\ UNCHANGED backend)]_vars

\* A write to device 0 was rejected after a teardown that followed writes (the
\* file still holds them), with no initialize since.
C5_Witness ==
    /\ last.op = "disk_write"
    /\ last.pdrv = 0
    /\ ValidRange(last.sector, last.count)
    /\ last.res = "RES_PARERR"
    /\ ~everInit
    /\ lastInit = "none"
    /\ fileExists
    /\ \E s \in SectorIdx : fileData[s] # 0

\* C6: disk_initialize(0) on a device that is already Ready succeeds, leaves it
\* Ready and leaves the contents of every sector unchanged, on both backends.
C6_ReinitializeSucceedsUnchanged ==
    [][(last'.op = "disk_initialize" /\ last'.pdrv = 0 /\ disk_status(0) = 0)
       => (last'.res = 0 /\ disk_initialized' = 1 /\ UNCHANGED Contents)]_vars

\* C7: disk_initialize(0) on a device that is already Ready acquires no backend
\* resource: the stream and the buffer held after the call are those held before
\* it, and no other stream or buffer was opened or allocated.
C7_ReinitializeAcquiresNothing ==
    [][(last'.op = "disk_initialize" /\ last'.pdrv = 0 /\ disk_status(0) = 0)
       => UNCHANGED <<disk_file, openFiles, virtual_disk, heap>>]_vars

\* C8: whenever disk_initialize(0) reports failure the device is not Ready
\* afterwards: disk_status(0) reports STA_NOINIT, whatever the state before.
C8_FailedInitializeNotReady ==
    (last.op = "disk_initialize" /\ last.pdrv = 0 /\ last.res = STA_NOINIT)
    => disk_status(0) = STA_NOINIT

C10_StatusPureAndExact ==
    [][(last'.op = "disk_status" /\ last'.pdrv = 0)
       => (/\ last'.res = (IF lastInit = "ok" THEN 0 ELSE STA_NOINIT)
           /\ UNCHANGED <<backend, crashed>>)]_vars

\* C11: on the file backend, an initialize that succeeds when the backing file
\* does not exist creates a file of exactly TOTAL_SECTORS sectors, all of them
\* zero (so every sector read before any write is zero).
C11_CreatedFileFullAndZero ==
    [][(/\ last'.op \in {"disk_initialize", "format_virtual_disk"}
        /\ last'.pdrv = 0
        /\ last'.res = (IF last'.op = "disk_initialize" THEN 0 ELSE 1)
        /\ use_file_backend = 1
        /\ ~fileExists)
       => (fileExists' /\ fileLen' = TOTAL_SECTORS /\ fileData' = ZeroDisk)]_vars

\* A disk_initialize that created the file has succeeded.
C11_Witness ==
    /\ use_file_backend = 1
    /\ last.op = "disk_initialize"
    /\ last.res = 0
    /\ last.out = <<"created">>
    /\ fileExists
    /\ fileLen = TOTAL_SECTORS

\* C12: when the zero-fill of a new backing file stops part-way the file is
\* discarded, so whenever the file-backed device is Ready its file holds all
\* TOTAL_SECTORS sectors.
C12_ReadyFileIsFull ==
    (use_file_backend = 1 /\ disk_status(0) = 0 /\ disk_file # 0)
    => (fileExists /\ fileLen >= TOTAL_SECTORS)

\* C13: data written to the disk file is preserved across a teardown followed by
\* a successful initialize. Every sector written in a session is in the file with
\* the data written; no teardown and no initialize of the file backend changes an
\* existing file (its length or its contents); and a read of a valid range inside
\* the file, on a device whose last initialize succeeded and with no failure of
\* the seek or the transfer, returns RES_OK and the contents of the file.
C13_FileDataSurvivesReinitialize ==
    [][/\ (use_file_backend = 1 /\ lastInit' = "ok")
            => \A s \in SectorIdx :
                   written'[s] # -1 => (fileLen' > s /\ fileData'[s] = written'[s])
       /\ (/\ use_file_backend = 1
           /\ fileExists
           /\ last'.op \in {"cleanup_disk_resources", "disk_initialize", "format_virtual_disk"})
              => UNCHANGED <<fileExists, fileLen, fileData>>
       /\ (/\ use_file_backend = 1
           /\ last'.op = "disk_read"
           /\ last'.pdrv = 0
           /\ lastInit = "ok"
           /\ ValidRange(last'.sector, last'.count)
           /\ last'.sector + last'.count <= fileLen
           /\ ~last'.fault)
              => (/\ last'.res = "RES_OK"
                  /\ last'.out = [i \in 1 .. last'.count |->
                                     fileData[last'.sector + i - 1]])]_vars

\* A read returned nonzero data that no write of its session stored: the data is
\* in the file from before the teardown.
C13_Witness ==
    /\ use_file_backend = 1
    /\ last.op = "disk_read"
    /\ last.res = "RES_OK"
    /\ lastInit = "ok"
    /\ written = NotWritten
    /\ \E i \in 1 .. Len(last.out) : last.out[i] # 0

\* C14: every stream or buffer acquired by initialize is released exactly once.
\* The resources held are at most one, and exactly the one the device refers to
\* (disk_file, virtual_disk); none is held after a failed initialize that leaves
\* the device without a backend, and none after teardown.
C14_ResourcesReleasedOnce ==
    /\ Cardinality(openFiles) + Cardinality(heap) <= 1
    /\ openFiles = (IF disk_file # 0 THEN {disk_file} ELSE {})
    /\ heap = (IF virtual_disk # 0 THEN {virtual_disk} ELSE {})
    /\ (last.op = "cleanup_disk_resources") => (openFiles = {} /\ heap = {})
    /\ (lastInit = "failed") => (openFiles = {} /\ heap = {})

\* C15: after cleanup_disk_resources the device is Uninitialized: disk_status(0)
\* reports STA_NOINIT, and until the next successful initialize it keeps doing so
\* and every disk_read and disk_write on device 0 is rejected; and from a
\* successful initialize to the next teardown the device is Ready, whatever
\* read, write, status or ioctl calls are made.
C15_TeardownUninitializedReadyPersists ==
    /\ (last.op = "cleanup_disk_resources") => (disk_status(0) = STA_NOINIT)
    /\ ~everInit => /\ disk_status(0) = STA_NOINIT
                    /\ (IsReadWrite(last) /\ last.pdrv = 0) => last.res = "RES_PARERR"
    /\ everInit => (disk_status(0) = 0)

\* A read of a valid range was rejected after the teardown of a device whose
\* file had been created in full.
C15_Witness ==
    /\ last.op = "disk_read"
    /\ last.pdrv = 0
    /\ ValidRange(last.sector, last.count)
    /\ last.res = "RES_PARERR"
    /\ ~everInit
    /\ fileExists
    /\ fileLen = TOTAL_SECTORS

\* C16: a disk_read or disk_write whose seek failed, or whose fread or fwrite
\* transferred less than was asked for, returns RES_ERROR and leaves the device
\* Ready: the same request passes both validation checks again.
C16_IoFailureReportedDeviceReady ==
    (IsReadWrite(last) /\ last.fault)
    => (/\ last.res = "RES_ERROR"
        /\ disk_status(0) = 0
        /\ ~NotReady(last.pdrv)
        /\ ~RangeRejected(last.sector, last.count))

\* A write that stopped part-way returned RES_ERROR with part of its data in the
\* file.
C16_Witness ==
    /\ last.op = "disk_write"
    /\ last.fault
    /\ last.res = "RES_ERROR"
    /\ last.count > 1
    /\ fileData # ZeroDisk
    /\ written = NotWritten

\* C17: disk_ioctl(0, GET_SECTOR_SIZE) and disk_ioctl(0, GET_SECTOR_COUNT) return
\* RES_OK with SECTOR_SIZE and TOTAL_SECTORS, whatever the state of the device:
\* before any initialize, while Ready, after a failed initialize, after teardown.
C17_GeometryInEveryState ==
    (last.op = "disk_ioctl" /\ last.pdrv = 0)
    => (/\ (last.cmd = "GET_SECTOR_SIZE")
               => (last.res = "RES_OK" /\ last.out = <<SECTOR_SIZE>>)
        /\ (last.cmd = "GET_SECTOR_COUNT")
               => (last.res = "RES_OK" /\ last.out = <<TOTAL_SECTORS>>))

\* The sector count was returned by a device that is not initialized and whose
\* last initialize failed.
C17_Witness ==
    /\ last.op = "disk_ioctl"
    /\ last.pdrv = 0
    /\ last.cmd = "GET_SECTOR_COUNT"
    /\ last.out = <<TOTAL_SECTORS>>
    /\ lastInit = "failed"
    /\ disk_initialized = 0

\* C18: disk_ioctl with a command other than CTRL_SYNC, GET_SECTOR_COUNT,
\* GET_SECTOR_SIZE and GET_BLOCK_SIZE returns RES_PARERR; and every disk_ioctl
\* call, whatever its command and result, leaves the sector contents (buffer and
\* file) and the initialization status unchanged.
C18_IoctlUnknownRejectedNoEffect ==
    [][(last'.op = "disk_ioctl")
       => (/\ (last'.cmd \notin {"CTRL_SYNC", "GET_SECTOR_COUNT",
                                 "GET_SECTOR_SIZE", "GET_BLOCK_SIZE"})
                  => last'.res = "RES_PARERR"
           /\ UNCHANGED <<Contents, fileExists, disk_initialized, disk_file, virtual_disk>>
           /\ disk_status(0)' = disk_status(0))]_vars

\* An unknown command was rejected on a Ready device 0 holding nonzero data.
C18_Witness ==
    /\ last.op = "disk_ioctl"
    /\ last.pdrv = 0
    /\ last.cmd = "CTRL_TRIM"
    /\ last.res = "RES_PARERR"
    /\ disk_status(0) = 0
    /\ (mem # ZeroDisk \/ fileData # ZeroDisk)

\* C19: for a device id other than 0, status and initialize return STA_NOINIT,
\* read, write and ioctl return an error, ioctl stores no value, and the call
\* changes nothing: no stream or buffer is acquired, and the flag, the backend
\* and the contents of device 0 are as before.
C19_UnknownDeviceRejectedNoEffect ==
    [][(last'.pdrv # 0)
       => (/\ (last'.op \in {"disk_status", "disk_initialize"}) => last'.res = STA_NOINIT
           /\ (last'.op \in {"disk_read", "disk_write", "disk_ioctl"})
                  => (last'.res \in {"RES_PARERR", "RES_ERROR"} /\ last'.out = <<>>)
           /\ UNCHANGED backend
           /\ disk_status(0)' = disk_status(0))]_vars

\* A write to device 1 was rejected while device 0 was Ready with a backend.
C19_Witness ==
    /\ last.op = "disk_write"
    /\ last.pdrv = 1
    /\ last.res = "RES_PARERR"
    /\ disk_status(0) = 0
    /\ (disk_file # 0 \/ virtual_disk # 0)

\* The kind of failure a read or write call must report, from its arguments and
\* the flag at the time of the call: "none" when none of the three applies.
C20_FailureKind(call, initialized) ==
    IF call.pdrv # 0 THEN "UnknownDevice"
    ELSE IF initialized = 0 THEN "NotReady"
    ELSE IF call.sector >= TOTAL_SECTORS \/ call.sector + call.count > TOTAL_SECTORS
    THEN "InvalidRange"
    ELSE "none"

\* C20: the results returned by read and write for an unknown device id, for a
\* device that is not initialized and for an out-of-range request are pairwise
\* different: two consecutive read or write calls that fail in different ones of
\* these ways return different results.
C20_FailureKindsDistinct ==
    [][(/\ IsReadWrite(last)
        /\ IsReadWrite(last')
        /\ C20_FailureKind(last, disk_initialized) # "none"
        /\ C20_FailureKind(last', disk_initialized') # "none"
        /\ C20_FailureKind(last, disk_initialized) # C20_FailureKind(last', disk_initialized'))
       => last.res # last'.res]_vars

\* C22: with the memory backend, every buffer initialize creates (on a fresh
\* device or after a teardown) holds zero in all TOTAL_SECTORS sectors; while the
\* buffer is held only disk_write changes its contents; and a read of a valid
\* range returns RES_OK and the contents of the buffer. So every sector reads as
\* zero until it is written, and nothing written before a teardown is read after
\* the next initialize.
C22_NewBufferReadsZero ==
    [][(use_file_backend = 0)
       => (/\ (virtual_disk' # 0 /\ virtual_disk' # virtual_disk) => mem' = ZeroDisk
           /\ (virtual_disk' = virtual_disk /\ last'.op # "disk_write") => mem' = mem
           /\ (/\ last'.op = "disk_read"
               /\ last'.pdrv = 0
               /\ disk_initialized = 1
               /\ virtual_disk # 0
               /\ ValidRange(last'.sector, last'.count))
                  => (/\ last'.res = "RES_OK"
                      /\ last'.out = [i \in 1 .. last'.count |->
                                         mem[last'.sector + i - 1]]))]_vars

\* A read of the whole disk returned zeros from a buffer no write has touched
\* since it was created.
C22_Witness ==
    /\ use_file_backend = 0
    /\ last.op = "disk_read"
    /\ last.sector = 0
    /\ last.count = TOTAL_SECTORS
    /\ last.res = "RES_OK"
    /\ last.out = [i \in 1 .. TOTAL_SECTORS |-> 0]
    /\ written = NotWritten
    /\ virtual_disk # 0

\* C24: whenever the device is marked initialized a usable backend exists: an
\* open stream with the file backend, an allocated buffer with the memory
\* backend; so no read or write of a valid range on a Ready device returns
\* RES_ERROR unless a seek or a transfer failed or the file is short.
C24_InitializedHasBackend ==
    /\ (disk_initialized = 1)
           => (IF use_file_backend = 1 THEN disk_file # 0 ELSE virtual_disk # 0)
    /\ (/\ IsReadWrite(last)
        /\ last.pdrv = 0
        /\ ValidRange(last.sector, last.count)
        /\ ~last.fault
        /\ last.sector + last.count <= fileLen
        /\ disk_status(0) = 0)
           => last.res # "RES_ERROR"

\* C25: a disk_write of a valid range to device 0 that returns RES_OK leaves every
\* sector outside [sector, sector + count) as it was, in the buffer and in the
\* file, and never shortens the file.
C25_WriteChangesOnlyItsRange ==
    [][(/\ last'.op = "disk_write"
        /\ last'.pdrv = 0
        /\ ValidRange(last'.sector, last'.count)
        /\ last'.res = "RES_OK")
       => (/\ \A s \in SectorIdx :
                  (s < last'.sector \/ s >= last'.sector + last'.count)
                      => (mem'[s] = mem[s] /\ fileData'[s] = fileData[s])
           /\ fileLen' >= fileLen
           /\ fileExists' = fileExists)]_vars

\* A write of the last sector alone returned RES_OK on a disk whose first sector
\* holds nonzero data.
C25_Witness ==
    /\ last.op = "disk_write"
    /\ last.pdrv = 0
    /\ last.sector = TOTAL_SECTORS - 1
    /\ last.count = 1
    /\ last.res = "RES_OK"
    /\ (IF use_file_backend = 1 THEN fileData[0] # 0 ELSE mem[0] # 0)

\* C23: the stub backend has no state: for the drives 0, 1 and 2, disk_status and
\* disk_initialize return 0, disk_read and disk_write return RES_OK for every
\* sector and count, and every recognized disk_ioctl returns RES_OK, with 1024
\* for GET_SECTOR_COUNT and 512 for GET_SECTOR_SIZE, whatever calls came before;
\* whereas the working backend rejects every read and write on device 0 while no
\* initialize has succeeded.
C23_StubStatelessWorkingNeedsInit ==
    /\ (last.op \in {"minimal_disk_status", "minimal_disk_initialize"} /\ last.pdrv \in {0, 1, 2})
           => last.res = 0
    /\ (last.op \in {"minimal_disk_read", "minimal_disk_write"} /\ last.pdrv \in {0, 1, 2})
           => last.res = "RES_OK"
    /\ (/\ last.op = "minimal_disk_ioctl"
        /\ last.pdrv \in {0, 1, 2}
        /\ last.cmd \in {"CTRL_SYNC", "GET_SECTOR_COUNT", "GET_SECTOR_SIZE", "GET_BLOCK_SIZE"})
           => (/\ last.res = "RES_OK"
               /\ (last.cmd = "GET_SECTOR_COUNT") => last.out = <<1024>>
               /\ (last.cmd = "GET_SECTOR_SIZE") => last.out = <<512>>)
    /\ (IsReadWrite(last) /\ last.pdrv = 0 /\ ~everInit) => last.res = "RES_PARERR"

\* The stub accepted a read far outside its geometry on drive 2, at a time when
\* the working backend was not initialized.
C23_Witness ==
    /\ last.op = "minimal_disk_read"
    /\ last.pdrv = 2
    /\ last.sector = UINT_MAX
    /\ last.count = UINT_MAX
    /\ last.res = "RES_OK"
    /\ disk_initialized = 0
    /\ fileExists

\* C26 as stated: after every fatfs_mount call, g_fs is allocated if and only if
\* the call returned FR_OK.
C26_AllocatedIffReturnedOk ==
    (lastMount.ret # "none") => ((g_fs # 0) <=> (lastMount.ret = "FR_OK"))

\* C26: after every fatfs_mount call whose arguments parsed, g_fs is allocated if
\* and only if the call returned FR_OK, and a call whose arguments did not parse
\* leaves g_fs as it was; the objects held are g_fs alone (each one allocated was
\* freed once, when replaced or when the mount failed); and the calls made are
\* f_mount, then f_mkfs exactly when f_mount returned FR_NO_FILESYSTEM, then a
\* second f_mount exactly when f_mkfs returned FR_OK, the result being that of
\* the last call made.
C26_MountKeepsObjectIffOk ==
    [][LET m == lastMount'
           n == Len(m.steps)
       IN
       /\ (m.ret = "TypeError") => UNCHANGED <<g_fs, fsHeap>>
       /\ (m.ret # "TypeError") => ((g_fs' # 0) <=> (m.ret = "FR_OK"))
       /\ fsHeap' = (IF g_fs' # 0 THEN {g_fs'} ELSE {})
       /\ (m.ret \in FResults)
              => (/\ n \in 1 .. 3
                  /\ m.ret = m.steps[n].res
                  /\ m.steps[1].name = "f_mount"
                  /\ (n >= 2) <=> (m.steps[1].res = "FR_NO_FILESYSTEM")
                  /\ (n >= 2) => m.steps[2].name = "f_mkfs"
                  /\ (n = 3) <=> (n >= 2 /\ m.steps[2].res = "FR_OK")
                  /\ (n = 3) => m.steps[3].name = "f_mount")]_vars

\* A mount found no filesystem, formatted, and failed at the second f_mount: the
\* object is freed and the second result returned.
C26_Witness ==
    /\ Len(lastMount.steps) = 3
    /\ lastMount.steps[1].res = "FR_NO_FILESYSTEM"
    /\ lastMount.steps[2].res = "FR_OK"
    /\ lastMount.ret = "FR_DISK_ERR"
    /\ g_fs = 0
    /\ fsHeap = {}

\* C21: with two callers in disk_read and disk_write on device 0 at once, every
\* transfer that completes is made at the sector its own call asked for: a write
\* lands at the offset requested and a read returns the sector requested, never
\* another sector's data.
C21_TransferAtRequestedSector ==
    (completed.op \in {"disk_read", "disk_write"} /\ completed.res = "RES_OK")
    => completed.at = completed.sector

====
